---- MODULE Spec2Model ----
(***************************************************************************)
(* Model of the Graph-RAG ingestion script (load_data.py) and of the two   *)
(* query demo scripts (test_query.py, test_query_auto.py).                 *)
(*                                                                         *)
(* Strings whose structure matters (object names, local paths, file        *)
(* extensions) are sequences of one-character strings, so that basename,   *)
(* suffix, lower() and join are computed as Python computes them.          *)
(***************************************************************************)
EXTENDS Integers, Sequences, FiniteSets, TLC

----------------------------------------------------------------------------
(* Bounds of the model *)

\* largest number of objects in the bucket
MaxBlobs == 3
\* largest number of pages PyPDFLoader returns for one PDF
MaxPages == 11
\* largest token count a query reports
MaxTokens == 2

----------------------------------------------------------------------------
(* String helpers *)

\* largest index of character c in s, 0 when absent (str.rfind, 1-based)
RFind(s, c) ==
    LET hits == {i \in 1..Len(s) : s[i] = c}
    IN  IF hits = {} THEN 0 ELSE CHOOSE i \in hits : \A j \in hits : j <= i

\* str.endswith('/')
EndsWithSlash(s) == Len(s) > 0 /\ s[Len(s)] = "/"

\* str.startswith(p): the prefix match list_blobs(prefix=...) applies
StartsWith(s, p) == Len(p) <= Len(s) /\ SubSeq(s, 1, Len(p)) = p

\* str.lower() on one character of the model's alphabet
LowerChar(c) ==
    CASE c = "P" -> "p"
      [] c = "D" -> "d"
      [] c = "F" -> "f"
      [] c = "M" -> "m"
      [] OTHER -> c

\* str.lower()
Lower(s) == [i \in 1..Len(s) |-> LowerChar(s[i])]

\* os.path.basename: everything after the last '/'
Basename(s) == SubSeq(s, RFind(s, "/") + 1, Len(s))

RECURSIVE StripSlashes(_)
\* pathlib drops trailing separators when it parses a path
StripSlashes(s) ==
    IF Len(s) > 1 /\ s[Len(s)] = "/" THEN StripSlashes(SubSeq(s, 1, Len(s) - 1))
    ELSE s

\* pathlib.PurePath.name: the final path component
PathName(s) == Basename(StripSlashes(s))

\* pathlib.PurePath.suffix: from the last '.' of the final component, unless
\* that dot is the first or the last character of the component
Suffix(s) ==
    LET name == PathName(s)
        i    == RFind(name, ".")
    IN  IF 1 < i /\ i < Len(name) THEN SubSeq(name, i, Len(name)) ELSE <<>>

\* os.path.join(a, b) on POSIX
Join(a, b) ==
    IF Len(b) > 0 /\ b[1] = "/" THEN b
    ELSE IF a = <<>> \/ EndsWithSlash(a) THEN a \o b
    ELSE a \o <<"/">> \o b

\* the extensions download_gcs_files accepts
AllowList ==
    { <<".", "p", "d", "f">>,
      <<".", "m", "d">>,
      <<".", "m", "a", "r", "k", "d", "o", "w", "n">> }

\* variant: any extension is accepted
SupportedAnyExtension(name) == Suffix(name) # <<>>

\* the extension test of download_gcs_files
Supported(name) == Lower(Suffix(name)) \in AllowList

\* the folder-marker / empty-object test of download_gcs_files
IsMarkerOrEmpty(blob) == EndsWithSlash(blob.name) \/ blob.size = 0

\* the local file an object is downloaded to
LocalPath(local_dir, name) == Join(local_dir, Basename(name))

----------------------------------------------------------------------------
(* Inputs *)

\* objects a bucket may hold, in the order the listing returns them
\* (object names are unique in a bucket and listed in byte order)
Catalogue ==
    << [name |-> <<".", "p", "d", "f">>,                          size |-> 3],
       [name |-> <<"a", "/", "r", ".", "p", "d", "f">>,           size |-> 5],
       [name |-> <<"b", "/", "r", ".", "p", "d", "f">>,           size |-> 5],
       [name |-> <<"e", ".", "p", "d", "f">>,                     size |-> 0],
       [name |-> <<"g", ".", "m", "a", "r", "k", "d", "o", "w", "n">>, size |-> 4],
       [name |-> <<"k", ".", "P", "D", "F">>,                     size |-> 5],
       [name |-> <<"n", ".", "m", "d">>,                          size |-> 2],
       [name |-> <<"p", ".", "p", "d", "f", "/">>,                size |-> 5],
       [name |-> <<"x", ".", "t", "x", "t">>,                     size |-> 5] >>

\* values of GCS_FOLDER_PREFIX ("" when unset)
Prefixes == { <<>>, <<"a", "/">> }

\* directories tempfile.TemporaryDirectory may create
TempDirs == { <<"/", "t">>, <<"/", "v", ".", "d", "/", "t">> }

RECURSIVE Pick(_, _)
\* the entries of the catalogue at the indices in S, in catalogue order
Pick(S, i) ==
    IF i > Len(Catalogue) THEN <<>>
    ELSE (IF i \in S THEN <<Catalogue[i]>> ELSE <<>>) \o Pick(S, i + 1)

\* bucket.list_blobs(prefix): the objects under the prefix, in listing order
ListBlobsResult(S, prefix) ==
    SelectSeq(Pick(S, 1), LAMBDA b : StartsWith(b.name, prefix))

\* page counts PyPDFLoader may return for a PDF
PageCounts == {0, 1, MaxPages}

\* number of documents processed per batch (chunk_size in main)
BatchSize == 10

\* the stages of one batch, in program order
StageOrder == <<"keyword", "split", "ner", "store_write", "visualize">>

Min(a, b) == IF a < b THEN a ELSE b

----------------------------------------------------------------------------
VARIABLES
    env,                 \* which environment variables are set
    pc,                  \* position of the ingestion script
    cassio_initialised,  \* cassio.init has been called
    store_constructed,   \* CassandraGraphVectorStore has been constructed
    listed,              \* the storage client has listed the bucket
    temp_dir,            \* the TemporaryDirectory of main
    blobs,               \* the listing download_gcs_files iterates over
    bi,                  \* index of the next blob of the listing
    downloaded_files,    \* downloaded_files of download_gcs_files
    downloads,           \* download_to_filename calls that completed
    localFS,             \* files in temp_dir: path |-> object it holds
    file_paths,          \* file_paths of main
    fi,                  \* index of the next path of load_documents_from_files
    loaded,              \* per file index, pages loaded (-1: loader raised)
    documents,           \* documents of load_documents_from_files / main
    bstart,              \* i of the batch loop of main (0-based)
    document_chunk,      \* document_chunk of main
    batches,             \* the slices the batch loop has taken so far
    stages,              \* stages executed so far: <<batch, stage>>
    stored,              \* chunks in the graph vector store
    logged,              \* LOGGER.error calls
    error,               \* exception the script terminated with
    script,              \* which query demo script runs
    qpc,                 \* position of the query script
    manager,             \* retrieval configuration of the ChainManager
    setup_calls,         \* number of setup_chains calls
    qi,                  \* index of the current question
    outstanding,         \* query operations awaited and not completed
    query_log,           \* query operations in completion order
    printed              \* token counts printed

ingestVars ==
    <<env, pc, cassio_initialised, store_constructed, listed, temp_dir, blobs,
      bi, downloaded_files, downloads, localFS, file_paths, fi, loaded,
      documents, bstart, document_chunk, batches, stages, stored, logged,
      error>>

queryVars ==
    <<script, qpc, manager, setup_calls, qi, outstanding, query_log, printed>>

vars == <<ingestVars, queryVars>>

----------------------------------------------------------------------------
(* Values *)

NoError == "none"
MissingCredentials == "ValueError: Missing required Astra DB credentials"
MissingBucket == "ValueError: GCS_BUCKET_NAME environment variable is not set"
NoFiles == "ValueError: No PDF or Markdown files found"
NoDocuments == "ValueError: No documents could be loaded"
ListError == "list_blobs failed"
DownloadError == "download_to_filename failed"
StageError == "stage failed"

NoDir == <<>>

\* a Document: the file (index in file_paths) and page it comes from, the
\* chunk number the splitter gave it (0: not split) and the links attached
Doc(f, p) == [file |-> f, page |-> p, part |-> 0, links |-> {}]

\* the documents a loader returns for file f with n pages
Pages(f, n) == [p \in 1..n |-> Doc(f, p)]

\* the state in which neither script has started
IngestIdle ==
    /\ pc = "import"
    /\ cassio_initialised = FALSE
    /\ store_constructed = FALSE
    /\ listed = FALSE
    /\ temp_dir = NoDir
    /\ blobs = <<>>
    /\ bi = 1
    /\ downloaded_files = <<>>
    /\ downloads = <<>>
    /\ localFS = {}
    /\ file_paths = <<>>
    /\ fi = 1
    /\ loaded = <<>>
    /\ documents = <<>>
    /\ bstart = 0
    /\ document_chunk = <<>>
    /\ batches = <<>>
    /\ stages = <<>>
    /\ stored = <<>>
    /\ logged = <<>>
    /\ error = NoError

QueryIdle ==
    /\ qpc = "start"
    /\ manager = [configured |-> FALSE, k |-> 0, depth |-> 0, lambda_mult |-> <<0, 1>>]
    /\ setup_calls = 0
    /\ qi = 1
    /\ outstanding = {}
    /\ query_log = <<>>
    /\ printed = <<>>

\* the ingestion script is started with any combination of the required
\* environment variables set or missing
Init ==
    /\ env \in [{"db_id", "token", "endpoint", "bucket"} -> BOOLEAN]
    /\ IngestIdle
    /\ script = "none"
    /\ QueryIdle

----------------------------------------------------------------------------
(* Exceptions *)

\* a raise at module level: nothing catches it
ModuleRaise(err) ==
    /\ pc' = "raised"
    /\ error' = err

\* the except clause of main: log, then re-raise; leaving the with block
\* removes the temporary directory
MainExcept(err, log0) ==
    /\ pc' = "raised"
    /\ error' = err
    /\ logged' = Append(log0, [at |-> "main", err |-> err])
    /\ localFS' = {}

\* the except clause of download_gcs_files: log, then re-raise into main
DownloadExcept(err) ==
    MainExcept(err, Append(logged, [at |-> "download_gcs_files", err |-> err]))

----------------------------------------------------------------------------
(* Module-level initialisation *)

\* the credentials check that precedes cassio.init
CheckCredentials ==
    /\ pc = "import"
    /\ IF ~env["db_id"] \/ ~env["token"] \/ ~env["endpoint"]
       THEN ModuleRaise(MissingCredentials)
       ELSE pc' = "cassio" /\ error' = error
    /\ UNCHANGED <<env, cassio_initialised, store_constructed, listed, temp_dir,
                   blobs, bi, downloaded_files, downloads, localFS, file_paths,
                   fi, loaded, documents, bstart, document_chunk, batches, stages,
                   stored, logged>>
    /\ UNCHANGED queryVars

\* cassio.init(...)
CassioInit ==
    /\ pc = "cassio"
    /\ cassio_initialised' = TRUE
    /\ pc' = "store"
    /\ UNCHANGED <<env, store_constructed, listed, temp_dir, blobs, bi,
                   downloaded_files, downloads, localFS, file_paths, fi, loaded,
                   documents, bstart, document_chunk, batches, stages, stored, logged,
                   error>>
    /\ UNCHANGED queryVars

\* store = CassandraGraphVectorStore(...)
StoreConstruct ==
    /\ pc = "store"
    /\ store_constructed' = TRUE
    /\ pc' = "main"
    /\ UNCHANGED <<env, cassio_initialised, listed, temp_dir, blobs, bi,
                   downloaded_files, downloads, localFS, file_paths, fi, loaded,
                   documents, bstart, document_chunk, batches, stages, stored, logged,
                   error>>
    /\ UNCHANGED queryVars

----------------------------------------------------------------------------
(* main: configuration *)

\* main reads GCS_BUCKET_NAME, raises when it is missing, and otherwise
\* creates the temporary directory
MainConfig ==
    /\ pc = "main"
    /\ IF ~env["bucket"]
       THEN /\ MainExcept(MissingBucket, logged)
            /\ temp_dir' = temp_dir
       ELSE /\ temp_dir' \in TempDirs
            /\ pc' = "list"
            /\ UNCHANGED <<error, logged, localFS>>
    /\ UNCHANGED <<env, cassio_initialised, store_constructed, listed, blobs, bi,
                   downloaded_files, downloads, file_paths, fi, loaded,
                   documents, bstart, document_chunk, batches, stages, stored>>
    /\ UNCHANGED queryVars

----------------------------------------------------------------------------
(* download_gcs_files *)

\* storage.Client(), bucket(), list_blobs(prefix): the listing of a bucket
\* that holds at most MaxBlobs objects
ListBlobs ==
    /\ pc = "list"
    /\ \E S \in SUBSET (1..Len(Catalogue)), prefix \in Prefixes :
          /\ Cardinality(S) <= MaxBlobs
          /\ blobs' = ListBlobsResult(S, prefix)
    /\ listed' = TRUE
    /\ bi' = 1
    /\ downloaded_files' = <<>>
    /\ pc' = "download"
    /\ UNCHANGED <<env, cassio_initialised, store_constructed, temp_dir,
                   downloads, localFS, file_paths, fi, loaded, documents, bstart,
                   document_chunk, batches, stages, stored, logged, error>>
    /\ UNCHANGED queryVars

\* the storage client cannot list the bucket
ListBlobsFails ==
    /\ pc = "list"
    /\ listed' = TRUE
    /\ DownloadExcept(ListError)
    /\ UNCHANGED <<env, cassio_initialised, store_constructed, temp_dir, blobs,
                   bi, downloaded_files, downloads, file_paths, fi, loaded,
                   documents, bstart, document_chunk, batches, stages, stored>>
    /\ UNCHANGED queryVars

\* a blob is downloaded when it is no marker, not empty and has a supported
\* extension
Eligible(blob) == ~IsMarkerOrEmpty(blob) /\ Supported(blob.name)

\* the two continue branches of the loop
SkipBlob ==
    /\ pc = "download"
    /\ bi <= Len(blobs)
    /\ ~Eligible(blobs[bi])
    /\ bi' = bi + 1
    /\ UNCHANGED <<env, pc, cassio_initialised, store_constructed, listed,
                   temp_dir, blobs, downloaded_files, downloads, localFS,
                   file_paths, fi, loaded, documents, bstart, document_chunk,
                   batches, stages, stored, logged, error>>
    /\ UNCHANGED queryVars

\* blob.download_to_filename(local_file_path) succeeds
DownloadBlob ==
    /\ pc = "download"
    /\ bi <= Len(blobs)
    /\ Eligible(blobs[bi])
    /\ LET local_file_path == LocalPath(temp_dir, blobs[bi].name)
       IN  /\ localFS' = {f \in localFS : f.path # local_file_path}
                            \cup {[path |-> local_file_path, blob |-> blobs[bi].name]}
           /\ downloads' = Append(downloads, [blob |-> blobs[bi], path |-> local_file_path])
           /\ downloaded_files' = Append(downloaded_files, local_file_path)
    /\ bi' = bi + 1
    /\ UNCHANGED <<env, pc, cassio_initialised, store_constructed, listed,
                   temp_dir, blobs, file_paths, fi, loaded, documents, bstart,
                   document_chunk, batches, stages, stored, logged, error>>
    /\ UNCHANGED queryVars

\* variant: a failing download is logged and the loop goes on
DownloadFailsSkipped ==
    /\ pc = "download"
    /\ bi <= Len(blobs)
    /\ Eligible(blobs[bi])
    /\ logged' = Append(logged, [at |-> "download_gcs_files", err |-> DownloadError])
    /\ bi' = bi + 1
    /\ UNCHANGED <<env, pc, cassio_initialised, store_constructed, listed,
                   temp_dir, blobs, downloaded_files, downloads, localFS,
                   file_paths, fi, loaded, documents, bstart, document_chunk,
                   batches, stages, stored, error>>
    /\ UNCHANGED queryVars

\* blob.download_to_filename(local_file_path) raises: the exception leaves
\* the loop, is logged by download_gcs_files and re-raised into main
DownloadFails ==
    /\ pc = "download"
    /\ bi <= Len(blobs)
    /\ Eligible(blobs[bi])
    /\ DownloadExcept(DownloadError)
    /\ UNCHANGED <<env, cassio_initialised, store_constructed, listed, temp_dir,
                   blobs, bi, downloaded_files, downloads, file_paths, fi,
                   loaded, documents, bstart, document_chunk, batches, stages, stored>>
    /\ UNCHANGED queryVars

\* return downloaded_files: main binds the result to file_paths
DownloadReturn ==
    /\ pc = "download"
    /\ bi > Len(blobs)
    /\ file_paths' = downloaded_files
    /\ blobs' = <<>>
    /\ pc' = "check_files"
    /\ UNCHANGED <<env, cassio_initialised, store_constructed, listed, temp_dir,
                   bi, downloaded_files, downloads, localFS, fi, loaded,
                   documents, bstart, document_chunk, batches, stages, stored, logged,
                   error>>
    /\ UNCHANGED queryVars

\* if not file_paths: raise ValueError
CheckFiles ==
    /\ pc = "check_files"
    /\ IF file_paths = <<>>
       THEN MainExcept(NoFiles, logged)
       ELSE pc' = "load" /\ UNCHANGED <<error, logged, localFS>>
    /\ fi' = 1
    /\ UNCHANGED <<env, cassio_initialised, store_constructed, listed, temp_dir,
                   blobs, bi, downloaded_files, downloads, file_paths, loaded,
                   documents, bstart, document_chunk, batches, stages, stored>>
    /\ UNCHANGED queryVars

----------------------------------------------------------------------------
(* load_documents_from_files *)

PdfExt == <<".", "p", "d", "f">>
MarkdownExts == { <<".", "m", "d">>, <<".", "m", "a", "r", "k", "d", "o", "w", "n">> }

\* file_ext of the file the loop is at
FileExt == Lower(Suffix(file_paths[fi]))

\* variant: the except clause re-raises
LoadExceptAborts ==
    /\ logged' = Append(logged, [at |-> "load_documents_from_files", err |-> "load failed"])
    /\ loaded' = Append(loaded, -1)
    /\ pc' = "raised"
    /\ error' = "load failed"
    /\ UNCHANGED <<fi, localFS, documents>>

\* the except clause of the loop body: log the error and continue
LoadExcept ==
    /\ logged' = Append(logged, [at |-> "load_documents_from_files", err |-> "load failed"])
    /\ loaded' = Append(loaded, -1)
    /\ fi' = fi + 1
    /\ UNCHANGED <<pc, error, localFS, documents>>

\* PyPDFLoader(file_path).load() returns the pages, which extend documents
LoadPdf ==
    /\ pc = "load"
    /\ fi <= Len(file_paths)
    /\ FileExt = PdfExt
    /\ \E n \in PageCounts :
          /\ documents' = documents \o Pages(fi, n)
          /\ loaded' = Append(loaded, n)
    /\ fi' = fi + 1
    /\ UNCHANGED <<env, pc, cassio_initialised, store_constructed, listed,
                   temp_dir, blobs, bi, downloaded_files, downloads, localFS,
                   file_paths, bstart, document_chunk, batches, stages, stored, logged,
                   error>>
    /\ UNCHANGED queryVars

\* TextLoader(file_path).load() returns one document, which is stamped
\* with its source metadata and extends documents
LoadMarkdown ==
    /\ pc = "load"
    /\ fi <= Len(file_paths)
    /\ FileExt \in MarkdownExts
    /\ documents' = documents \o Pages(fi, 1)
    /\ loaded' = Append(loaded, 1)
    /\ fi' = fi + 1
    /\ UNCHANGED <<env, pc, cassio_initialised, store_constructed, listed,
                   temp_dir, blobs, bi, downloaded_files, downloads, localFS,
                   file_paths, bstart, document_chunk, batches, stages, stored, logged,
                   error>>
    /\ UNCHANGED queryVars

\* the loader of a PDF or Markdown file raises
LoadFails ==
    /\ pc = "load"
    /\ fi <= Len(file_paths)
    /\ FileExt = PdfExt \/ FileExt \in MarkdownExts
    /\ LoadExcept
    /\ UNCHANGED <<env, cassio_initialised, store_constructed, listed, temp_dir,
                   blobs, bi, downloaded_files, downloads, file_paths, bstart,
                   document_chunk, batches, stages, stored>>
    /\ UNCHANGED queryVars

\* a path with any other extension matches neither branch
LoadSkip ==
    /\ pc = "load"
    /\ fi <= Len(file_paths)
    /\ FileExt # PdfExt /\ FileExt \notin MarkdownExts
    /\ loaded' = Append(loaded, 0)
    /\ fi' = fi + 1
    /\ UNCHANGED <<env, pc, cassio_initialised, store_constructed, listed,
                   temp_dir, blobs, bi, downloaded_files, downloads, localFS,
                   file_paths, documents, bstart, document_chunk, batches, stages, stored,
                   logged, error>>
    /\ UNCHANGED queryVars

\* return documents
LoadReturn ==
    /\ pc = "load"
    /\ fi > Len(file_paths)
    /\ pc' = "check_docs"
    /\ UNCHANGED <<env, cassio_initialised, store_constructed, listed, temp_dir,
                   blobs, bi, downloaded_files, downloads, localFS, file_paths,
                   fi, loaded, documents, bstart, document_chunk, batches, stages, stored,
                   logged, error>>
    /\ UNCHANGED queryVars

\* variant: the empty result is not checked
CheckDocsProceeds ==
    /\ pc = "check_docs"
    /\ pc' = "batch"
    /\ bstart' = 0
    /\ UNCHANGED <<env, cassio_initialised, store_constructed, listed, temp_dir,
                   blobs, bi, downloaded_files, downloads, localFS, file_paths,
                   fi, loaded, documents, document_chunk, batches, stages,
                   stored, logged, error>>
    /\ UNCHANGED queryVars

\* if not documents: raise ValueError
CheckDocs ==
    /\ pc = "check_docs"
    /\ IF documents = <<>>
       THEN MainExcept(NoDocuments, logged)
       ELSE pc' = "batch" /\ UNCHANGED <<error, logged, localFS>>
    /\ bstart' = 0
    /\ UNCHANGED <<env, cassio_initialised, store_constructed, listed, temp_dir,
                   blobs, bi, downloaded_files, downloads, file_paths, fi,
                   loaded, documents, document_chunk, batches, stages, stored>>
    /\ UNCHANGED queryVars

----------------------------------------------------------------------------
(* main: the batch loop *)

\* variant: the slice includes its upper index
BatchSliceInclusive(docs, i) == SubSeq(docs, i + 1, Min(i + BatchSize + 1, Len(docs)))

\* documents[i:i + chunk_size], i counted from 0
BatchSlice(docs, i) == SubSeq(docs, i + 1, Min(i + BatchSize, Len(docs)))

\* number of the batch that starts at document i (1-based)
BatchNo(i) == (i \div BatchSize) + 1

\* LinkExtractorTransformer: every document gets the extractor's links
AddLinks(docs, kind) ==
    [j \in 1..Len(docs) |-> [docs[j] EXCEPT !.links = @ \cup {kind}]]

\* number of chunks the splitter cuts a document into, a function of its
\* text: blank pages give none, long pages two
NumChunks(d) == IF d.page % 3 = 0 THEN 0 ELSE IF d.page % 2 = 0 THEN 2 ELSE 1

RECURSIVE SplitDocuments(_)
\* RecursiveCharacterTextSplitter.split_documents: the chunks of every
\* document, in document order, each with the metadata of its document
SplitDocuments(docs) ==
    IF docs = <<>> THEN <<>>
    ELSE [c \in 1..NumChunks(Head(docs)) |-> [Head(docs) EXCEPT !.part = c]]
            \o SplitDocuments(Tail(docs))

\* for i in range(0, len(documents), chunk_size): the next slice, or the
\* end of main, which leaves the with block and removes the directory
BatchStart ==
    /\ pc = "batch"
    /\ IF bstart < Len(documents)
       THEN /\ document_chunk' = BatchSlice(documents, bstart)
            /\ batches' = Append(batches, BatchSlice(documents, bstart))
            /\ pc' = "keyword"
            /\ localFS' = localFS
       ELSE /\ pc' = "done"
            /\ localFS' = {}
            /\ UNCHANGED <<document_chunk, batches>>
    /\ UNCHANGED <<env, cassio_initialised, store_constructed, listed, temp_dir,
                   blobs, bi, downloaded_files, downloads, file_paths, fi,
                   loaded, documents, bstart, stages, stored, logged, error>>
    /\ UNCHANGED queryVars

\* variant: entity extraction before splitting
NextStageNerFirst(stage) ==
    CASE stage = "keyword" -> "ner"
      [] stage = "ner" -> "split"
      [] stage = "split" -> "store_write"
      [] stage = "store_write" -> "visualize"
      [] stage = "visualize" -> "batch"

\* the stage that follows a stage of the loop body
NextStage(stage) ==
    CASE stage = "keyword" -> "split"
      [] stage = "split" -> "ner"
      [] stage = "ner" -> "store_write"
      [] stage = "store_write" -> "visualize"
      [] stage = "visualize" -> "batch"

\* a stage of the current batch completes: it is recorded, and control
\* moves to the next statement of the loop body
StageDone(stage) ==
    /\ stages' = Append(stages, <<BatchNo(bstart), stage>>)
    /\ pc' = NextStage(stage)
    /\ UNCHANGED <<error, logged, localFS>>

\* KeybertLinkExtractor on the documents of the batch
KeywordStage ==
    /\ pc = "keyword"
    /\ document_chunk' = AddLinks(document_chunk, "keyword")
    /\ StageDone("keyword")
    /\ UNCHANGED <<env, cassio_initialised, store_constructed, listed, temp_dir,
                   blobs, bi, downloaded_files, downloads, file_paths, fi,
                   loaded, documents, bstart, stored, batches>>
    /\ UNCHANGED queryVars

\* text_splitter.split_documents
SplitStage ==
    /\ pc = "split"
    /\ document_chunk' = SplitDocuments(document_chunk)
    /\ StageDone("split")
    /\ UNCHANGED <<env, cassio_initialised, store_constructed, listed, temp_dir,
                   blobs, bi, downloaded_files, downloads, file_paths, fi,
                   loaded, documents, bstart, stored, batches>>
    /\ UNCHANGED queryVars

\* GLiNERLinkExtractor on the chunks of the batch
NerStage ==
    /\ pc = "ner"
    /\ document_chunk' = AddLinks(document_chunk, "ner")
    /\ StageDone("ner")
    /\ UNCHANGED <<env, cassio_initialised, store_constructed, listed, temp_dir,
                   blobs, bi, downloaded_files, downloads, file_paths, fi,
                   loaded, documents, bstart, stored, batches>>
    /\ UNCHANGED queryVars

\* store.add_documents(document_chunk)
StoreWrite ==
    /\ pc = "store_write"
    /\ stored' = stored \o document_chunk
    /\ StageDone("store_write")
    /\ UNCHANGED <<env, cassio_initialised, store_constructed, listed, temp_dir,
                   blobs, bi, downloaded_files, downloads, file_paths, fi,
                   loaded, documents, bstart, document_chunk, batches>>
    /\ UNCHANGED queryVars

\* visualize_graph_text(document_chunk), then the next iteration
Visualize ==
    /\ pc = "visualize"
    /\ bstart' = bstart + BatchSize
    /\ StageDone("visualize")
    /\ UNCHANGED <<env, cassio_initialised, store_constructed, listed, temp_dir,
                   blobs, bi, downloaded_files, downloads, file_paths, fi,
                   loaded, documents, document_chunk, stored, batches>>
    /\ UNCHANGED queryVars

Stages == {"keyword", "split", "ner", "store_write", "visualize"}

\* variant: the error is logged and the loop body goes on
StageRaisesSwallowed(stage) ==
    /\ stages' = Append(stages, <<BatchNo(bstart), stage>>)
    /\ logged' = Append(logged, [at |-> "main", err |-> StageError])
    /\ pc' = IF stage = "visualize" THEN "raised" ELSE NextStage(stage)
    /\ UNCHANGED <<error, localFS>>

\* a stage of the current batch raises: the stage was attempted, the
\* exception reaches the except clause of main, which logs and re-raises
StageRaises(stage) ==
    /\ stages' = Append(stages, <<BatchNo(bstart), stage>>)
    /\ MainExcept(StageError, logged)

\* any stage of the loop body may raise; a failing store write may have
\* persisted some of the chunks
StageFails ==
    /\ pc \in Stages
    /\ StageRaises(pc)
    /\ IF pc = "store_write"
       THEN \E k \in {0, Min(1, Len(document_chunk))} :
               stored' = stored \o SubSeq(document_chunk, 1, k)
       ELSE stored' = stored
    /\ UNCHANGED <<env, cassio_initialised, store_constructed, listed, temp_dir,
                   blobs, bi, downloaded_files, downloads, file_paths, fi,
                   loaded, documents, bstart, document_chunk, batches>>
    /\ UNCHANGED queryVars

----------------------------------------------------------------------------
(* The ingestion script *)

Next ==
    \/ CheckCredentials
    \/ CassioInit
    \/ StoreConstruct
    \/ MainConfig
    \/ ListBlobs
    \/ ListBlobsFails
    \/ SkipBlob
    \/ DownloadBlob
    \/ DownloadFails
    \/ DownloadReturn
    \/ CheckFiles
    \/ LoadPdf
    \/ LoadMarkdown
    \/ LoadFails
    \/ LoadReturn
    \/ CheckDocs
    \/ BatchStart
    \/ KeywordStage
    \/ SplitStage
    \/ NerStage
    \/ StoreWrite
    \/ Visualize
    \/ StageFails

Spec == Init /\ [][Next]_vars

----------------------------------------------------------------------------
(* load_documents_from_files on arbitrary lists of paths *)

\* paths the loader may be handed, unsupported extensions included
LoadPaths ==
    { <<"/", "t", "/", "r", ".", "p", "d", "f">>,
      <<"/", "t", "/", "k", ".", "P", "D", "F">>,
      <<"/", "t", "/", "n", ".", "m", "d">>,
      <<"/", "t", "/", "g", ".", "m", "a", "r", "k", "d", "o", "w", "n">>,
      <<"/", "t", "/", "x", ".", "t", "x", "t">> }

\* the loader is called with any list of at most MaxBlobs paths
InitLoad ==
    /\ env = [v \in {"db_id", "token", "endpoint", "bucket"} |-> TRUE]
    /\ pc = "load"
    /\ cassio_initialised = TRUE
    /\ store_constructed = TRUE
    /\ listed = TRUE
    /\ temp_dir = <<"/", "t">>
    /\ blobs = <<>>
    /\ bi = 1
    /\ downloaded_files = <<>>
    /\ downloads = <<>>
    /\ localFS = {}
    /\ \E n \in 0..MaxBlobs : file_paths \in [1..n -> LoadPaths]
    /\ fi = 1
    /\ loaded = <<>>
    /\ documents = <<>>
    /\ bstart = 0
    /\ document_chunk = <<>>
    /\ batches = <<>>
    /\ stages = <<>>
    /\ stored = <<>>
    /\ logged = <<>>
    /\ error = NoError
    /\ script = "none"
    /\ QueryIdle

NextLoad ==
    \/ LoadPdf
    \/ LoadMarkdown
    \/ LoadFails
    \/ LoadSkip
    \/ LoadReturn

SpecLoad == InitLoad /\ [][NextLoad]_vars

----------------------------------------------------------------------------
(* The query demo scripts *)

Scripts == {"test_query", "test_query_auto"}

\* the questions list of a script
Questions(s) ==
    IF s = "test_query"
    THEN << "What is Graph RAG and how does it work?",
            "What technologies are used in this system?",
            "How does vector search differ from graph traversal?" >>
    ELSE << "What is Graph RAG and how does it work?",
            "What technologies are used in this system?",
            "How does vector search compare to graph traversal?" >>

\* lambda_mult=0.5 as numerator and denominator
Half == <<1, 2>>

Unconfigured == [configured |-> FALSE, k |-> 0, depth |-> 0, lambda_mult |-> <<0, 1>>]

\* ChainManager.setup_chains stores the retrieval configuration
SetupChains(k, depth, lambda_mult) ==
    [configured |-> TRUE, k |-> k, depth |-> depth, lambda_mult |-> lambda_mult]

\* a query operation reads the configuration of the manager and leaves it
\* as it is
ManagerAfterQuery(m) == m

\* usage.get('total_tokens', 'N/A'): 0 stands for a usage record without
\* the key, NA for the text printed in its place
NA == -1
TokensPrinted(usage) == IF usage = 0 THEN NA ELSE usage

Usages == 0..MaxTokens

InitQuery ==
    /\ env = [v \in {"db_id", "token", "endpoint", "bucket"} |-> TRUE]
    /\ IngestIdle
    /\ script \in Scripts
    /\ qpc = "start"
    /\ manager = Unconfigured
    /\ setup_calls = 0
    /\ qi = 1
    /\ outstanding = {}
    /\ query_log = <<>>
    /\ printed = <<>>

\* manager = ChainManager(); manager.setup_chains(k=5, depth=2, lambda_mult=0.5)
QSetup ==
    /\ qpc = "start"
    /\ manager' = SetupChains(5, 2, Half)
    /\ setup_calls' = setup_calls + 1
    /\ qi' = 1
    /\ qpc' = "question"
    /\ UNCHANGED <<script, outstanding, query_log, printed>>
    /\ UNCHANGED ingestVars

\* the operation the script awaits at a position
Awaited(p) == IF p = "await_similarity" THEN "similarity" ELSE "graph"

\* variant: both operations are started before either is awaited
QStartBoth ==
    /\ qpc = "question"
    /\ qi <= Len(Questions(script))
    /\ outstanding' = outstanding \cup {<<Questions(script)[qi], "similarity">>,
                                         <<Questions(script)[qi], "graph">>}
    /\ qpc' = "await_similarity"
    /\ UNCHANGED <<script, manager, setup_calls, qi, query_log, printed>>
    /\ UNCHANGED ingestVars

\* the loop takes the next question and awaits get_similarity_result
QStartSimilarity ==
    /\ qpc = "question"
    /\ qi <= Len(Questions(script))
    /\ outstanding' = outstanding \cup {<<Questions(script)[qi], "similarity">>}
    /\ qpc' = "await_similarity"
    /\ UNCHANGED <<script, manager, setup_calls, qi, query_log, printed>>
    /\ UNCHANGED ingestVars

\* the awaited operation returns: the script prints the result and the
\* token count
QueryReturns(kind, usage) ==
    /\ outstanding' = outstanding \ {<<Questions(script)[qi], kind>>}
    /\ query_log' = Append(query_log, <<Questions(script)[qi], kind>>)
    /\ printed' = Append(printed, TokensPrinted(usage))
    /\ manager' = ManagerAfterQuery(manager)

\* get_similarity_result returns
QSimilarityReturns ==
    /\ qpc = "await_similarity"
    /\ \E usage \in Usages : QueryReturns("similarity", usage)
    /\ qpc' = "graph"
    /\ UNCHANGED <<script, setup_calls, qi>>
    /\ UNCHANGED ingestVars

\* the script awaits get_mmr_result
QStartGraph ==
    /\ qpc = "graph"
    /\ outstanding' = outstanding \cup {<<Questions(script)[qi], "graph">>}
    /\ qpc' = "await_graph"
    /\ UNCHANGED <<script, manager, setup_calls, qi, query_log, printed>>
    /\ UNCHANGED ingestVars

\* get_mmr_result returns; test_query then waits for Enter, test_query_auto
\* goes on to the next question
QGraphReturns ==
    /\ qpc = "await_graph"
    /\ \E usage \in Usages : QueryReturns("graph", usage)
    /\ IF script = "test_query"
       THEN qpc' = "input" /\ qi' = qi
       ELSE qpc' = "question" /\ qi' = qi + 1
    /\ UNCHANGED <<script, setup_calls>>
    /\ UNCHANGED ingestVars

\* input("Press Enter to continue to next question...") returns
QPressEnter ==
    /\ qpc = "input"
    /\ qi' = qi + 1
    /\ qpc' = "question"
    /\ UNCHANGED <<script, manager, setup_calls, outstanding, query_log, printed>>
    /\ UNCHANGED ingestVars

\* the awaited operation raises: the exception leaves test_queries
QueryRaises ==
    /\ qpc \in {"await_similarity", "await_graph"}
    /\ outstanding' = outstanding \ {<<Questions(script)[qi], Awaited(qpc)>>}
    /\ qpc' = "raised"
    /\ UNCHANGED <<script, manager, setup_calls, qi, query_log, printed>>
    /\ UNCHANGED ingestVars

\* the loop is exhausted
QFinish ==
    /\ qpc = "question"
    /\ qi > Len(Questions(script))
    /\ qpc' = "done"
    /\ UNCHANGED <<script, manager, setup_calls, qi, outstanding, query_log, printed>>
    /\ UNCHANGED ingestVars

NextQuery ==
    \/ QSetup
    \/ QStartSimilarity
    \/ QSimilarityReturns
    \/ QStartGraph
    \/ QGraphReturns
    \/ QPressEnter
    \/ QueryRaises
    \/ QFinish

SpecQuery == InitQuery /\ [][NextQuery]_vars

----------------------------------------------------------------------------
(* Properties *)

\* s ends with the character sequence e
EndsWith(s, e) == Len(e) <= Len(s) /\ SubSeq(s, Len(s) - Len(e) + 1, Len(s)) = e

\* the lower-cased text ends in one of .pdf, .md, .markdown
HasAllowedExtension(s) == \E e \in AllowList : EndsWith(Lower(s), e)

\* number of entries of the log written by a function
LogCount(at) == Cardinality({i \in 1..Len(logged) : logged[i].at = at})

\* C1: every path download_gcs_files collects or returns ends, lower-cased,
\* in .pdf, .md or .markdown; every object it downloads has such a name, does
\* not end in '/' and is not empty, and the returned paths are exactly the
\* local files of the downloaded objects
C1_OnlyAllowedExtensions ==
    /\ \A i \in 1..Len(downloaded_files) : HasAllowedExtension(downloaded_files[i])
    /\ \A i \in 1..Len(file_paths) : HasAllowedExtension(file_paths[i])
    /\ \A i \in 1..Len(downloads) :
          /\ ~EndsWithSlash(downloads[i].blob.name)
          /\ downloads[i].blob.size # 0
          /\ HasAllowedExtension(downloads[i].blob.name)
    /\ \A f \in localFS : HasAllowedExtension(f.blob) /\ HasAllowedExtension(f.path)
    /\ Len(downloaded_files) = Len(downloads)
    /\ \A i \in 1..Len(downloads) : downloaded_files[i] = downloads[i].path

\* a listing in which objects were skipped and an object with an upper-case
\* extension was downloaded has been worked off
C1_Witness ==
    /\ pc = "download"
    /\ bi > Len(blobs)
    /\ Len(blobs) > Len(downloaded_files)
    /\ \E i \in 1..Len(downloads) : Suffix(downloads[i].path) = <<".", "P", "D", "F">>

\* C2: a run that ends with a missing-configuration error has made no
\* network call: no cassio.init, no vector store, no bucket listing
C2_FailsBeforeNetwork ==
    error \in {MissingCredentials, MissingBucket} =>
        /\ ~cassio_initialised
        /\ ~store_constructed
        /\ ~listed

EligibleBefore(n) == {i \in 1..(n - 1) : i <= Len(blobs) /\ Eligible(blobs[i])}

RECURSIVE DocumentsOf(_, _)
\* the documents of the files up to index n that loaded, in file order
DocumentsOf(outcome, n) ==
    IF n = 0 THEN <<>>
    ELSE DocumentsOf(outcome, n - 1)
            \o (IF outcome[n] > 0 THEN [p \in 1..outcome[n] |-> Doc(n, p)] ELSE <<>>)

\* C4: load_documents_from_files never raises; every failing file is logged
\* once and skipped, and the documents are exactly those of the files that
\* loaded, in input order
C4_LoaderSkipsFailures ==
    /\ pc \in {"load", "check_docs"}
    /\ error = NoError
    /\ Len(loaded) = fi - 1
    /\ fi <= Len(file_paths) + 1
    /\ pc = "check_docs" => Len(loaded) = Len(file_paths)
    /\ documents = DocumentsOf(loaded, Len(loaded))
    /\ Len(logged) = Cardinality({i \in 1..Len(loaded) : loaded[i] = -1})
    /\ \A i \in 1..Len(logged) : logged[i].at = "load_documents_from_files"

\* the loader returned after a file failed and a later file loaded
C4_Witness ==
    /\ pc = "check_docs"
    /\ \E i, j \in 1..Len(loaded) : i < j /\ loaded[i] = -1 /\ loaded[j] > 0
    /\ documents # <<>>

\* positions of main behind the check of file_paths
AfterCheckFiles ==
    {"load", "check_docs", "batch", "keyword", "split", "ner", "store_write",
     "visualize", "done"}

\* positions of main behind the check of documents
AfterCheckDocs ==
    {"batch", "keyword", "split", "ner", "store_write", "visualize", "done"}

\* C5: main goes on past an empty fetch or an empty load only by raising:
\* it then ends with the logged error, no stage has run and the store is
\* empty; any stage or write implies files and documents
C5_EmptyResultAborts ==
    /\ pc \in AfterCheckFiles => file_paths # <<>>
    /\ pc \in AfterCheckDocs => documents # <<>>
    /\ error \in {NoFiles, NoDocuments} =>
          /\ pc = "raised"
          /\ logged # <<>>
          /\ logged[Len(logged)] = [at |-> "main", err |-> error]
          /\ batches = <<>>
          /\ stages = <<>>
          /\ stored = <<>>
    /\ error = NoFiles => file_paths = <<>> /\ documents = <<>>
    /\ error = NoDocuments => documents = <<>>
    /\ (stages # <<>> \/ stored # <<>>) => (file_paths # <<>> /\ documents # <<>>)

\* files were fetched, none of them gave a document, and main raised
C5_Witness ==
    /\ pc = "raised"
    /\ error = NoDocuments
    /\ Len(file_paths) >= 2

RECURSIVE Flatten(_)
\* the concatenation of a sequence of sequences
Flatten(ss) == IF ss = <<>> THEN <<>> ELSE Head(ss) \o Flatten(Tail(ss))

\* C6: the batches taken so far are consecutive slices of documents in the
\* original order, all but the last of 10 documents, the last of 1 to 10;
\* when the loop ends they cover documents and there are ceil(N/10) of them
C6_BatchesPartition ==
    /\ Len(Flatten(batches)) <= Len(documents)
    /\ Flatten(batches) = SubSeq(documents, 1, Len(Flatten(batches)))
    /\ \A b \in 1..Len(batches) :
          /\ Len(batches[b]) >= 1
          /\ Len(batches[b]) <= 10
          /\ b < Len(batches) => Len(batches[b]) = 10
    /\ pc = "done" =>
          /\ Flatten(batches) = documents
          /\ Len(batches) = (Len(documents) + 9) \div 10

\* the loop ended after at least three batches, the last one short
C6_Witness ==
    /\ pc = "done"
    /\ Len(batches) >= 3
    /\ Len(batches[Len(batches)]) < 10

\* documents of batch b that the splitter gives at least one chunk have a
\* chunk in the store
BatchWritten(b) ==
    \A j \in 1..Len(batches[b]) :
        NumChunks(batches[b][j]) > 0 =>
            \E c \in 1..Len(stored) :
                /\ stored[c].file = batches[b][j].file
                /\ stored[c].page = batches[b][j].page

\* C7: the stages executed are, in order, keyword, split, ner, store_write,
\* visualize of batch 1, then of batch 2, and so on; keyword extraction sees
\* whole documents, entity extraction sees chunks; only chunks with both
\* kinds of links are stored; every batch before the current one is written
C7_StageOrder ==
    /\ \A p \in 1..Len(stages) :
          stages[p] = <<((p - 1) \div 5) + 1, StageOrder[((p - 1) % 5) + 1]>>
    /\ pc = "keyword" =>
          \A j \in 1..Len(document_chunk) :
              document_chunk[j].part = 0 /\ document_chunk[j].links = {}
    /\ pc = "split" =>
          \A j \in 1..Len(document_chunk) :
              document_chunk[j].part = 0 /\ document_chunk[j].links = {"keyword"}
    /\ pc = "ner" =>
          \A j \in 1..Len(document_chunk) :
              document_chunk[j].part >= 1 /\ document_chunk[j].links = {"keyword"}
    /\ \A c \in 1..Len(stored) :
          stored[c].part >= 1 /\ stored[c].links = {"keyword", "ner"}
    /\ \A b \in 1..(Len(batches) - 1) : BatchWritten(b)
    /\ \A p \in 1..Len(stages) : stages[p][1] <= Len(batches)

\* two batches went through all five stages
C7_Witness ==
    /\ pc = "done"
    /\ Len(stages) >= 10
    /\ stored # <<>>

\* C8: an error of a stage is logged by main and ends the run: no stage is
\* executed twice, no stage of a later batch is executed, and the batches
\* before the failing one are in the store
C8_StageFailureAborts ==
    /\ \A p, q \in 1..Len(stages) : p # q => stages[p] # stages[q]
    /\ (\E i \in 1..Len(logged) : logged[i].err = StageError) =>
          /\ pc = "raised"
          /\ error = StageError
    /\ error = StageError =>
          /\ pc = "raised"
          /\ logged # <<>>
          /\ logged[Len(logged)] = [at |-> "main", err |-> StageError]
          /\ Cardinality({i \in 1..Len(logged) : logged[i].err = StageError}) = 1
          /\ stages # <<>>
          /\ stages[Len(stages)][1] = BatchNo(bstart)
          /\ \A p \in 1..Len(stages) : stages[p][1] <= BatchNo(bstart)
          /\ Len(batches) = BatchNo(bstart)
          /\ \A b \in 1..(BatchNo(bstart) - 1) : BatchWritten(b)

\* the store write of the second or a later batch failed
C8_Witness ==
    /\ error = StageError
    /\ BatchNo(bstart) >= 2
    /\ stages[Len(stages)][2] = "store_write"
    /\ stored # <<>>

\* the operation at position p of the completion order
ExpectedQuery(p) ==
    <<Questions(script)[(p + 1) \div 2], IF p % 2 = 1 THEN "similarity" ELSE "graph">>

\* C9: setup_chains is called once, before any query, with k=5, depth=2,
\* lambda_mult=1/2, and the configuration stays; the operations complete in
\* the order similarity, graph of question 1, 2, 3; at most one operation is
\* outstanding, and a graph query only after the similarity query of the
\* same question has completed
C9_SequentialQueries ==
    /\ setup_calls <= 1
    /\ qpc = "start" => (outstanding = {} /\ query_log = <<>> /\ setup_calls = 0)
    /\ qpc # "start" =>
          /\ setup_calls = 1
          /\ manager = [configured |-> TRUE, k |-> 5, depth |-> 2,
                        lambda_mult |-> <<1, 2>>]
    /\ Cardinality(outstanding) <= 1
    /\ Len(query_log) <= 2 * Len(Questions(script))
    /\ \A p \in 1..Len(query_log) : query_log[p] = ExpectedQuery(p)
    /\ \A o \in outstanding :
          /\ o = ExpectedQuery(Len(query_log) + 1)
          /\ o[2] = "graph" =>
                (query_log # <<>> /\ query_log[Len(query_log)] = <<o[1], "similarity">>)

\* the graph query of the second question is outstanding
C9_Witness ==
    /\ qpc = "await_graph"
    /\ qi = 2
    /\ outstanding = {<<Questions(script)[2], "graph">>}
    /\ Len(query_log) = 3

\* C10: the objects downloaded in one call have pairwise distinct local
\* files, so no path is returned twice and no download overwrites another
C10_DistinctLocalFiles ==
    \A i, j \in 1..Len(downloads) : i # j => downloads[i].path # downloads[j].path
====
